---- MODULE Spec2Model ----
(***************************************************************************)
(* giscus-proxy: the request-handling core.                               *)
(*                                                                         *)
(* Strings are sequences of tokens (a token is a run of characters that   *)
(* the code never splits).  The absent header and the empty string are    *)
(* both <<>>, as http.Header.Get returns "" for an absent header.         *)
(* Time is counted in ticks; one second is Second ticks.  A time.Duration *)
(* is a two's-complement integer of DurBits bits (64 bits of nanoseconds  *)
(* in the program), so that N * time.Second wraps as it does in Go.       *)
(***************************************************************************)
EXTENDS Integers, Sequences, FiniteSets, Bags, TLC

\* ------------------------------------------------------------------ bounds
MaxTime == 3
MaxCap == 1
MaxInFlight == 2
MaxChunks == 3
MaxCacheCap == 3

\* ------------------------------------------------- scaled program constants
\* time.Second, in ticks (10^9 ns in the program)
Second == 2
\* width of time.Duration (int64 in the program)
DurBits == 3

\* --------------------------------------------------------------- strings
\* strings.TrimSpace: strip the leading and trailing white-space tokens
RECURSIVE TrimLeft(_)
TrimLeft(s) == IF s # <<>> /\ Head(s) = " " THEN TrimLeft(Tail(s)) ELSE s

RECURSIVE TrimRight(_)
TrimRight(s) ==
  IF s # <<>> /\ s[Len(s)] = " " THEN TrimRight(SubSeq(s, 1, Len(s) - 1)) ELSE s

TrimSpace(s) == TrimRight(TrimLeft(s))

\* strings.ToLower, token by token
LowerTok(t) ==
  CASE t = "GZIP" -> "gzip"
    [] t = "Identity" -> "identity"
    [] t = "Max-Age=" -> "max-age="
    [] OTHER -> t

ToLower(s) == [i \in 1..Len(s) |-> LowerTok(s[i])]

\* strings.HasPrefix(s, p) for a one-token prefix p
HasPrefix(s, p) == s # <<>> /\ Head(s) = p

\* strconv.Atoi on a string: ok only for a single numeral token
Atoi(s) ==
  IF Len(s) # 1 THEN [ok |-> FALSE, val |-> 0]
  ELSE CASE s[1] = "-1" -> [ok |-> TRUE, val |-> -1]
         [] s[1] = "0" -> [ok |-> TRUE, val |-> 0]
         [] s[1] = "1" -> [ok |-> TRUE, val |-> 1]
         [] s[1] = "2" -> [ok |-> TRUE, val |-> 2]
         [] s[1] = "3" -> [ok |-> TRUE, val |-> 3]
         [] s[1] = "4" -> [ok |-> TRUE, val |-> 4]
         [] OTHER -> [ok |-> FALSE, val |-> 0]

\* ------------------------------------------------------------- durations
\* a mathematical integer as a DurBits-wide two's-complement value
WrapDur(n) ==
  LET m == 2 ^ DurBits
      u == n % m
  IN IF u >= m \div 2 THEN u - m ELSE u

\* time.Duration(secs) * time.Second
SecondsToDuration(secs) == WrapDur(secs * Second)

\* ---------------------------------------------------------------- headers
CacheHeaders ==
  <<"Content-Type", "Content-Encoding", "Cache-Control", "ETag", "Last-Modified", "Vary">>

CORSHeaders ==
  <<"Access-Control-Allow-Origin", "Vary", "Access-Control-Allow-Methods",
    "Access-Control-Allow-Headers">>

HeaderNames ==
  {CacheHeaders[i] : i \in 1..Len(CacheHeaders)}
    \cup {CORSHeaders[i] : i \in 1..Len(CORSHeaders)}
    \cup {"X-Content-Type-Options"}

\* http.Header{}: every header absent
NoHeaders == [h \in HeaderNames |-> <<>>]

\* http.Header.Set on some of the headers
WithHeaders(pairs) ==
  [h \in HeaderNames |-> IF h \in DOMAIN pairs THEN pairs[h] ELSE <<>>]

\* ------------------------------------------------------------------ cache
\* cache.Entry{}: the zero entry Get returns with found = false
NoEntry == [Status |-> 0, Headers |-> NoHeaders, Body |-> <<>>, Expires |-> 0]

\* Get with the expiry test off by one: an entry is absent at its expiry
MemoryCacheGetEarly(d, key, t) ==
  IF key \notin DOMAIN d THEN [ok |-> FALSE, entry |-> NoEntry, data |-> d]
  ELSE IF t >= d[key].Expires THEN [ok |-> FALSE, entry |-> NoEntry, data |-> d]
  ELSE [ok |-> TRUE, entry |-> d[key], data |-> d]

\* Get that sweeps: an expired entry is deleted when it is looked up
MemoryCacheGetSweep(d, key, t) ==
  IF key \notin DOMAIN d THEN [ok |-> FALSE, entry |-> NoEntry, data |-> d]
  ELSE IF t > d[key].Expires
  THEN [ok |-> FALSE, entry |-> NoEntry, data |-> [k \in DOMAIN d \ {key} |-> d[k]]]
  ELSE [ok |-> TRUE, entry |-> d[key], data |-> d]

\* Get that purges: every lookup deletes all the entries that have expired
MemoryCacheGetPurge(d, key, t) ==
  LET live == [k \in {x \in DOMAIN d : t <= d[x].Expires} |-> d[k]]
  IN IF key \in DOMAIN live THEN [ok |-> TRUE, entry |-> d[key], data |-> live]
     ELSE [ok |-> FALSE, entry |-> NoEntry, data |-> live]

\* MemoryCache.Get at time t: (entry, found), and the map as the call leaves
\* it (Get only reads it)
MemoryCacheGet(d, key, t) ==
  IF key \notin DOMAIN d THEN [ok |-> FALSE, entry |-> NoEntry, data |-> d]
  ELSE IF t > d[key].Expires THEN [ok |-> FALSE, entry |-> NoEntry, data |-> d]
  ELSE [ok |-> TRUE, entry |-> d[key], data |-> d]

\* c.data[key] = entry
MapPut(d, key, entry) ==
  [k \in DOMAIN d \cup {key} |-> IF k = key THEN entry ELSE d[k]]

\* delete(c.data, k)
MapDelete(d, key) == [k \in DOMAIN d \ {key} |-> d[k]]

\* Set that keeps the Expires of the entry it overwrites
MemoryCacheSetKeepExpires(d, cap, key, entry) ==
  IF key \in DOMAIN d
  THEN {MapPut(d, key, [entry EXCEPT !.Expires = d[key].Expires])}
  ELSE {MapPut(d, key, entry)}

\* MemoryCache.Set: the maps it may leave.  At capacity the first key of a
\* map iteration is deleted (Go leaves the iteration order unspecified).
MemoryCacheSet(d, cap, key, entry) ==
  IF Cardinality(DOMAIN d) >= cap /\ DOMAIN d # {}
  THEN {MapPut(MapDelete(d, victim), key, entry) : victim \in DOMAIN d}
  ELSE {MapPut(d, key, entry)}

\* --------------------------------------------------------- response writer
\* statusWriter over an http.ResponseWriter: hdr the live header map, sent the
\* headers as committed with the first status, codes the WriteHeader calls,
\* body the bytes passed to Write, writes the number of Write calls, late the
\* number of WriteHeader calls made after a Write.
NewWriter ==
  [hdr |-> NoHeaders, sent |-> NoHeaders, codes |-> <<>>, body |-> <<>>, writes |-> 0,
   late |-> 0]

\* w.Header().Set(k, v)
SetHeader(w, k, v) == [w EXCEPT !.hdr[k] = v]

\* statusWriter.WriteHeader: records the code; the first call commits
WriteHeader(w, code) ==
  [w EXCEPT !.codes = Append(@, code),
            !.sent = IF w.codes = <<>> THEN w.hdr ELSE @,
            !.late = IF w.writes > 0 THEN @ + 1 ELSE @]

\* statusWriter.Write
Write(w, p) == [w EXCEPT !.body = @ \o p, !.writes = @ + 1]

\* a status field that stays at its initial http.StatusOK
SwStatusInitial(w) == 200

\* statusWriter.status: http.StatusOK until WriteHeader is called
SwStatus(w) == IF w.codes = <<>> THEN 200 ELSE w.codes[Len(w.codes)]

\* the status on the wire: the first WriteHeader wins
WireStatus(w) == IF w.codes = <<>> THEN 200 ELSE w.codes[1]

\* an error reply that sends the status only
HttpErrorStatusOnly(w, msg, code) == WriteHeader(w, code)

\* http.Error(w, msg, code)
HttpError(w, msg, code) ==
  LET w1 == SetHeader(w, "Content-Type", <<"text/plain; charset=utf-8">>)
      w2 == SetHeader(w1, "X-Content-Type-Options", <<"nosniff">>)
  IN Write(WriteHeader(w2, code), msg \o <<"\n">>)

\* writeCORS without its Vary header
WriteCORSNoVary(w) ==
  LET w1 == SetHeader(w, "Access-Control-Allow-Origin", <<"*">>)
      w3 == SetHeader(w1, "Access-Control-Allow-Methods", <<"GET,HEAD,OPTIONS">>)
  IN SetHeader(w3, "Access-Control-Allow-Headers", <<"Content-Type,Authorization,Accept">>)

\* writeCORS
WriteCORS(w) ==
  LET w1 == SetHeader(w, "Access-Control-Allow-Origin", <<"*">>)
      w2 == SetHeader(w1, "Vary", <<"Origin">>)
      w3 == SetHeader(w2, "Access-Control-Allow-Methods", <<"GET,HEAD,OPTIONS">>)
  IN SetHeader(w3, "Access-Control-Allow-Headers", <<"Content-Type,Authorization,Accept">>)

\* copyIf(dst, src, keys...) on a header map
CopyIfMap(dst, src, keys) ==
  [h \in HeaderNames |->
     IF (\E i \in 1..Len(keys) : keys[i] = h) /\ src[h] # <<>> THEN src[h] ELSE dst[h]]

\* copyIf copying every header of the allow-list, whatever keys it is given
CopyIfAllowList(w, src, keys) == [w EXCEPT !.hdr = CopyIfMap(w.hdr, src, CacheHeaders)]

\* copyIf(w.Header(), src, keys...)
CopyIf(w, src, keys) == [w EXCEPT !.hdr = CopyIfMap(w.hdr, src, keys)]

\* ------------------------------------------------------------ parseMaxAge
\* the index of the first token t of s at or after i, Len(s) + 1 if none
RECURSIVE IndexFrom(_, _, _)
IndexFrom(s, t, i) ==
  IF i > Len(s) THEN Len(s) + 1
  ELSE IF s[i] = t THEN i
  ELSE IndexFrom(s, t, i + 1)

\* strings.Split(s, sep) for a one-token separator
RECURSIVE Split(_, _)
Split(s, sep) ==
  LET i == IndexFrom(s, sep, 1)
  IN IF i > Len(s) THEN <<s>>
     ELSE <<SubSeq(s, 1, i - 1)>> \o Split(SubSeq(s, i + 1, Len(s)), sep)

\* the loop of parseMaxAge over the directives from index i on
RECURSIVE MaxAgeFrom(_, _)
MaxAgeFrom(parts, i) ==
  IF i > Len(parts) THEN [ok |-> FALSE, ttl |-> 0, secs |-> 0]
  ELSE LET p == TrimSpace(parts[i])
       IN IF HasPrefix(ToLower(p), "max-age=")
          THEN LET n == Atoi(TrimSpace(Tail(p)))
               IN IF n.ok /\ n.val > 0
                  THEN [ok |-> TRUE, ttl |-> SecondsToDuration(n.val), secs |-> n.val]
                  ELSE MaxAgeFrom(parts, i + 1)
          ELSE MaxAgeFrom(parts, i + 1)

\* parseMaxAge(h): (ttl, ok); secs is the N of the max-age=N it accepted
ParseMaxAge(h) ==
  LET cc == h["Cache-Control"]
  IN IF cc = <<>> THEN [ok |-> FALSE, ttl |-> 0, secs |-> 0]
     ELSE MaxAgeFrom(Split(cc, ","), 1)

\* ---------------------------------------------------------------- requests
\* A request: method, URL path, query (the name/value pairs of the raw query
\* in order) and the Accept-Encoding header.
UpstreamOrigin == "https://giscus.app"
WidgetSourcePath == "/en/widget"
WidgetPaths == {"/widget", "/en/widget"}

\* r.URL.RequestURI(): path and raw query
RequestURI(r) == <<r.path, r.query>>

\* a cache key built without the method
CacheKeyNoMethod(r) == <<RequestURI(r), " ae=">> \o TrimSpace(r.ae)

\* Proxy.cacheKey
CacheKey(r) == <<r.method, " ", RequestURI(r), " ae=">> \o TrimSpace(r.ae)

\* Proxy.Register: the handler a path is routed to
\* a router with the catch-all handler on every path
RouteAllPass(r) == "pass"

Route(r) == IF r.path \in WidgetPaths THEN "widget" ELSE "pass"

\* the upstream URL of a passthrough request: origin + path + "?" + raw query
PassTarget(r) == [origin |-> UpstreamOrigin, path |-> r.path, query |-> r.query]

\* ------------------------------------------------------------ replacements
\* q["rep"]: the values of the rep parameters, in order
RECURSIVE RepValues(_)
RepValues(q) ==
  IF q = <<>> THEN <<>>
  ELSE (IF Head(q)[1] = "rep" THEN <<Head(q)[2]>> ELSE <<>>) \o RepValues(Tail(q))

\* regexp.Compile succeeds: the parentheses of the pattern nest properly
RECURSIVE ParensOK(_, _)
ParensOK(pat, depth) ==
  IF pat = <<>> THEN depth = 0
  ELSE IF Head(pat) = "(" THEN ParensOK(Tail(pat), depth + 1)
  ELSE IF Head(pat) = ")" THEN depth > 0 /\ ParensOK(Tail(pat), depth - 1)
  ELSE ParensOK(Tail(pat), depth)

RegexpCompiles(pat) == ParensOK(pat, 0)

\* the loop of parseReplacers from index i on, out the rules so far
RECURSIVE ParseFrom(_, _, _)
ParseFrom(vals, i, out) ==
  IF i > Len(vals) THEN [err |-> FALSE, reps |-> out]
  ELSE LET raw == vals[i]
           k == IndexFrom(raw, "=>", 1)
           left == SubSeq(raw, 1, k - 1)
           right == SubSeq(raw, k + 1, Len(raw))
       IN IF k > Len(raw) THEN [err |-> TRUE, reps |-> <<>>]
          ELSE IF HasPrefix(left, "re:")
          THEN IF RegexpCompiles(Tail(left))
               THEN ParseFrom(vals, i + 1,
                      Append(out, [useRegex |-> TRUE, from |-> Tail(left), to |-> right]))
               ELSE [err |-> TRUE, reps |-> <<>>]
          ELSE ParseFrom(vals, i + 1,
                 Append(out, [useRegex |-> FALSE, from |-> left, to |-> right]))

\* a parse that looks at the first rep value only
ParseReplacersFirstOnly(q) ==
  LET vals == RepValues(q)
  IN IF vals = <<>> THEN ParseFrom(vals, 1, <<>>) ELSE ParseFrom(<<vals[1]>>, 1, <<>>)

\* parseReplacers(q): (rules, err)
ParseReplacers(q) == ParseFrom(RepValues(q), 1, <<>>)

\* s has the tokens of old at position i
MatchAt(s, old, i) ==
  i + Len(old) - 1 <= Len(s) /\ \A j \in 1..Len(old) : s[i + j - 1] = old[j]

\* strings.ReplaceAll(s, old, new) from position i on; an empty old matches
\* before every token and at the end
RECURSIVE ReplaceFrom(_, _, _, _)
ReplaceFrom(s, old, new, i) ==
  IF i > Len(s) THEN (IF old = <<>> THEN new ELSE <<>>)
  ELSE IF old = <<>> THEN new \o <<s[i]>> \o ReplaceFrom(s, old, new, i + 1)
  ELSE IF MatchAt(s, old, i) THEN new \o ReplaceFrom(s, old, new, i + Len(old))
  ELSE <<s[i]>> \o ReplaceFrom(s, old, new, i + 1)

ReplaceAll(s, old, new) == ReplaceFrom(s, old, new, 1)

\* the tokens a pattern of literals and groups matches: its parentheses dropped
RegexLiteral(pat) == SelectSeq(pat, LAMBDA t : t \notin {"(", ")"})

\* the text of the first group of a pattern of literals
FirstGroup(pat) ==
  LET o == IndexFrom(pat, "(", 1)
      c == IndexFrom(pat, ")", o + 1)
  IN IF o > Len(pat) THEN <<>>
     ELSE RegexLiteral(SubSeq(pat, o + 1, c - 1))

\* Regexp.Expand of a replacement template: $0 the match, $1 the first group
RECURSIVE ExpandTemplate(_, _)
ExpandTemplate(to, pat) ==
  IF to = <<>> THEN <<>>
  ELSE (CASE Head(to) = "$0" -> RegexLiteral(pat)
          [] Head(to) = "$1" -> FirstGroup(pat)
          [] OTHER -> <<Head(to)>>) \o ExpandTemplate(Tail(to), pat)

\* Regexp.ReplaceAllString(s, to) for a pattern of literals and groups
RegexReplaceAll(s, pat, to) == ReplaceAll(s, RegexLiteral(pat), ExpandTemplate(to, pat))

\* applyReplacements with the rules taken from the last to the first
RECURSIVE ApplyReplacementsReversed(_, _)
ApplyReplacementsReversed(b, reps) ==
  IF reps = <<>> THEN b
  ELSE LET r == reps[Len(reps)]
           s == IF r.useRegex THEN RegexReplaceAll(b, r.from, r.to)
                ELSE ReplaceAll(b, r.from, r.to)
       IN ApplyReplacementsReversed(s, SubSeq(reps, 1, Len(reps) - 1))

\* applyReplacements(b, reps): each rule on the output of the one before
RECURSIVE ApplyReplacements(_, _)
ApplyReplacements(b, reps) ==
  IF reps = <<>> THEN b
  ELSE LET r == Head(reps)
           s == IF r.useRegex THEN RegexReplaceAll(b, r.from, r.to)
                ELSE ReplaceAll(b, r.from, r.to)
       IN ApplyReplacements(s, Tail(reps))

\* the attribution string in its three encodings; the tokens are the en dash
\* (en-dash), the hyphen, " powered by " (P), the <-escaped anchor (E) and the
\* plain anchor (L)
FooterEscaped == <<"en-dash", "P", "E">>
FooterEnDash == <<"en-dash", "P", "L">>
FooterHyphen == <<"-", "P", "L">>

\* widgetFooterSwap
WidgetFooterSwap(b) ==
  ReplaceAll(ReplaceAll(ReplaceAll(b, FooterEscaped, <<>>), FooterEnDash, <<>>),
             FooterHyphen, <<>>)

\* ------------------------------------------------------------ decompression
\* gzip.NewReader accepts a stream that starts with the gzip magic (GZ)
GzipOK(body) == body # <<>> /\ Head(body) = "GZ"

\* the bytes a gzip reader yields
Gunzip(body) == Tail(body)

\* a decompression that reads an encoding it does not know as identity
DecompressUnknownAsIdentity(h, body) ==
  LET enc == ToLower(TrimSpace(h["Content-Encoding"]))
  IN IF enc = <<"gzip">>
     THEN (IF GzipOK(body) THEN [err |-> FALSE, plain |-> Gunzip(body), rest |-> <<>>]
           ELSE [err |-> TRUE, plain |-> <<>>, rest |-> <<>>])
     ELSE [err |-> FALSE, plain |-> body, rest |-> <<>>]

\* decompressIfNeeded(h, body): err, the bytes the returned reader yields, and
\* rest, what is left unread in the upstream body when it fails (gzip.NewReader
\* has then buffered a short body whole)
DecompressIfNeeded(h, body) ==
  LET enc == ToLower(TrimSpace(h["Content-Encoding"]))
  IN CASE enc = <<>> \/ enc = <<"identity">> ->
            [err |-> FALSE, plain |-> body, rest |-> <<>>]
       [] enc = <<"gzip">> ->
            IF GzipOK(body) THEN [err |-> FALSE, plain |-> Gunzip(body), rest |-> <<>>]
            ELSE [err |-> TRUE, plain |-> <<>>, rest |-> <<>>]
       [] OTHER -> [err |-> TRUE, plain |-> <<>>, rest |-> body]

\* ------------------------------------------------------- upstream exchange
\* no upstream response: the request never reached client.Do
NoUp ==
  [err |-> FALSE, status |-> 0, hdr |-> NoHeaders, body |-> <<>>, readErr |-> FALSE,
   avail |-> 0]

\* a read of the body that reports no failure
ReadAllNoError(up) ==
  [err |-> FALSE,
   bin |-> IF up.readErr THEN SubSeq(up.body, 1, up.avail) ELSE up.body]

\* io.ReadAll(resp.Body): (bin, err)
ReadAll(up) ==
  IF up.readErr THEN [err |-> TRUE, bin |-> SubSeq(up.body, 1, up.avail)]
  ELSE [err |-> FALSE, bin |-> up.body]

\* io.Copy(w, src): the bytes readable before the source fails are written
IoCopy(w, bytes) == IF bytes = <<>> THEN w ELSE Write(w, bytes)

\* the bytes resp.Body yields before it ends or fails
Readable(up) == IF up.readErr THEN SubSeq(up.body, 1, up.avail) ELSE up.body

\* a log line that never shows more than the initial cache state
LogLineInitialState(kind, r, w, cacheState, target) ==
  [kind |-> kind, method |-> r.method, path |-> RequestURI(r), status |-> SwStatus(w),
   bytes |-> Len(w.body), cache |-> IF kind = "pass" THEN "BYPASS" ELSE "-",
   target |-> target]

\* logLine: the fields of the line a handler's deferred call emits
LogLine(kind, r, w, cacheState, target) ==
  [kind |-> kind, method |-> r.method, path |-> RequestURI(r), status |-> SwStatus(w),
   bytes |-> Len(w.body), cache |-> IF cacheState = "" THEN "-" ELSE cacheState,
   target |-> target]

\* var target string, before it is assigned
NoTarget == [origin |-> "", path |-> "", query |-> <<>>]

\* http.NewRequest fails on a target that does not parse as a URL
BadPaths == {"/%zz"}
NewRequestFails(target) == target.path \in BadPaths

\* ------------------------------------------------------ handlePassthrough
\* the replay of a cache hit (passthrough.go 40-49)
HitReplay(w, r, ent) ==
  LET w1 == WriteHeader(CopyIf(w, ent.Headers, CacheHeaders), ent.Status)
  IN IF r.method = "GET" THEN Write(w1, ent.Body) ELSE w1

\* an upstream request that repeats the client's method
UpstreamMethodOfClient(r) == r.method

\* the method of the upstream request: http.NewRequest(http.MethodGet, ...)
UpstreamMethod(r) == "GET"

\* the method check with POST let through
MethodAllowedOrPost(m) == m = "GET" \/ m = "HEAD" \/ m = "POST"

\* the methods both handlers go on with past their method checks
MethodAllowed(m) == m = "GET" \/ m = "HEAD"

\* handlePassthrough up to client.Do: done tells whether the handler returned
\* before calling upstream, data is the cache's map as the handler leaves it
PassBegin(r, d, t) ==
  LET w == NewWriter
      target == PassTarget(r)
      g == MemoryCacheGet(d, CacheKey(r), t)
      upreq == [method |-> UpstreamMethod(r), target |-> target, ae |-> r.ae,
                accept |-> "*/*",
                ua |-> "giscus-proxy/clean-1.0"]
  IN IF r.method = "OPTIONS"
     THEN [done |-> TRUE, w |-> WriteHeader(WriteCORS(w), 204), cacheState |-> "BYPASS",
           target |-> NoTarget, gets |-> 0, upreqs |-> <<>>, data |-> d]
     ELSE IF ~MethodAllowed(r.method)
     THEN [done |-> TRUE, w |-> HttpError(w, <<"method not allowed">>, 405),
           cacheState |-> "BYPASS", target |-> NoTarget, gets |-> 0, upreqs |-> <<>>,
           data |-> d]
     ELSE IF g.ok
     THEN [done |-> TRUE, w |-> HitReplay(w, r, g.entry), cacheState |-> "HIT",
           target |-> target, gets |-> 1, upreqs |-> <<>>, data |-> g.data]
     ELSE IF NewRequestFails(target)
     THEN [done |-> TRUE, w |-> HttpError(w, <<"failed to build upstream request">>, 500),
           cacheState |-> "BYPASS", target |-> target, gets |-> 1, upreqs |-> <<>>,
           data |-> g.data]
     ELSE [done |-> FALSE, w |-> w, cacheState |-> "BYPASS", target |-> target,
           gets |-> 1, upreqs |-> <<upreq>>, data |-> g.data]

\* the headers of a new cache entry (passthrough.go 83-88)
EntryHeaders(hdr) == CopyIfMap(NoHeaders, hdr, CacheHeaders)

\* the buffered branch taken without the test of the method
BufferableAnyMethod(r, up) ==
  LET enc == ToLower(TrimSpace(up.hdr["Content-Encoding"]))
  IN (enc = <<>> \/ enc = <<"identity">>) /\ up.status = 200

\* the buffered branch taken (passthrough.go 75)
Bufferable(r, up) ==
  LET enc == ToLower(TrimSpace(up.hdr["Content-Encoding"]))
  IN r.method = "GET" /\ (enc = <<>> \/ enc = <<"identity">>) /\ up.status = 200

\* handlePassthrough after client.Do returned up, at time t: the writer, the
\* cache state logged, and the entry passed to cache.Set if store
PassEnd(r, up, t) ==
  LET w == NewWriter
      wc == WriteCORS(w)
      rd == ReadAll(up)
      pm == ParseMaxAge(up.hdr)
      w1 == Write(WriteHeader(CopyIf(wc, up.hdr, CacheHeaders), up.status), rd.bin)
      wa == IF rd.err THEN wc ELSE w1
      w2 == WriteHeader(CopyIf(wa, up.hdr, CacheHeaders), up.status)
      w3 == IF rd.err THEN w2 ELSE Write(w2, rd.bin)
      w4 == WriteHeader(CopyIf(wc, up.hdr, CacheHeaders), up.status)
      ent == [Status |-> up.status, Headers |-> EntryHeaders(up.hdr), Body |-> rd.bin,
              Expires |-> t + pm.ttl]
  IN IF up.err
     THEN [w |-> HttpError(w, <<"upstream error: ", "err">>, 502), cacheState |-> "BYPASS",
           store |-> FALSE, entry |-> NoEntry]
     ELSE IF Bufferable(r, up)
     THEN IF ~rd.err /\ pm.ok
          THEN [w |-> w1, cacheState |-> "MISS:cached", store |-> TRUE, entry |-> ent]
          ELSE [w |-> w3, cacheState |-> "MISS", store |-> FALSE, entry |-> NoEntry]
     ELSE [w |-> IF r.method # "HEAD" THEN IoCopy(w4, Readable(up)) ELSE w4,
           cacheState |-> "BYPASS", store |-> FALSE, entry |-> NoEntry]

\* ------------------------------------------------------------ handleWidget
\* a copy of the query that strips nothing
StripRepNothing(q) == q

\* the query parameters other than rep, in order (widget.go 36-44)
RECURSIVE StripRep(_)
StripRep(q) ==
  IF q = <<>> THEN <<>>
  ELSE (IF Head(q)[1] = "rep" THEN <<>> ELSE <<Head(q)>>) \o StripRep(Tail(q))

\* the parameter names of the model, in the order url.Values.Encode sorts them
NameOrder == <<"rep", "term", "theme">>

\* url.Values.Encode: the pairs sorted by name, the values of a name in order
RECURSIVE EncodeFrom(_, _)
EncodeFrom(tq, i) ==
  IF i > Len(NameOrder) THEN <<>>
  ELSE SelectSeq(tq, LAMBDA pr : pr[1] = NameOrder[i]) \o EncodeFrom(tq, i + 1)

Encode(tq) == EncodeFrom(tq, 1)

\* the upstream URL of a widget request
WidgetTarget(r) ==
  [origin |-> UpstreamOrigin, path |-> WidgetSourcePath, query |-> Encode(StripRep(r.query))]

\* handleWidget, up the answer of client.Do if the handler calls it
WidgetHandle(r, up) ==
  LET w == NewWriter
      pr == ParseReplacers(r.query)
      target == WidgetTarget(r)
      upreq == [method |-> UpstreamMethod(r), target |-> target, ae |-> <<"identity">>,
                accept |-> "text/html,application/xhtml+xml,application/xml;q=0.9,*/*;q=0.8",
                ua |-> "giscus-proxy/clean-1.0"]
      wc == CopyIf(WriteCORS(w), up.hdr, <<"Content-Type">>)
      dec == DecompressIfNeeded(up.hdr, Readable(up))
      bin == WidgetFooterSwap(ApplyReplacements(dec.plain, pr.reps))
      wh == WriteHeader(wc, up.status)
  IN IF r.method = "OPTIONS"
     THEN [w |-> WriteHeader(WriteCORS(w), 204), target |-> NoTarget, upreqs |-> <<>>]
     ELSE IF ~MethodAllowed(r.method)
     THEN [w |-> HttpError(w, <<"method not allowed">>, 405), target |-> NoTarget,
           upreqs |-> <<>>]
     ELSE IF pr.err
     THEN [w |-> HttpError(w, <<"bad rep value">>, 400), target |-> NoTarget,
           upreqs |-> <<>>]
     ELSE IF up.err
     THEN [w |-> HttpError(w, <<"upstream error: ", "err">>, 502), target |-> target,
           upreqs |-> <<upreq>>]
     ELSE IF dec.err
     THEN [w |-> IoCopy(wh, dec.rest), target |-> target, upreqs |-> <<upreq>>]
     ELSE IF up.readErr
     THEN [w |-> Write(wh, <<"<!-- read body failed: ", "err", " -->">>), target |-> target,
           upreqs |-> <<upreq>>]
     ELSE [w |-> IF r.method # "HEAD" THEN Write(wh, bin) ELSE wh, target |-> target,
           upreqs |-> <<upreq>>]

\* ------------------------------------------------------------------ inputs
Req(m, p, q, ae) == [method |-> m, path |-> p, query |-> q, ae |-> ae]

\* rep values: LEFT=>RIGHT, a value without separator, regex rules that do
\* and do not compile
RepLiteral == <<"rep", <<"H", "=>", "i">>>>
RepNoSep == <<"rep", <<"H">>>>
RepRegex == <<"rep", <<"re:", "(", "x", ")", "=>", "$1", "i">>>>
RepBadRegex == <<"rep", <<"re:", "(", "=>", "x">>>>
Theme == <<"theme", <<"dark">>>>
Term == <<"term", <<"t">>>>

PassRequests ==
  { Req("GET", "/a", <<>>, <<>>),
    Req("GET", "/b", <<Theme>>, <<>>),
    Req("HEAD", "/a", <<>>, <<>>),
    Req("GET", "/%zz", <<>>, <<>>),
    Req("OPTIONS", "/a", <<RepNoSep>>, <<>>),
    Req("DELETE", "/b", <<>>, <<"gzip">>) }

WidgetRequests ==
  { Req("GET", "/widget", <<>>, <<>>),
    Req("GET", "/widget", <<RepLiteral, Theme>>, <<"gzip">>),
    Req("GET", "/en/widget", <<Theme, RepRegex, Term, Theme>>, <<>>),
    Req("GET", "/en/widget", <<RepNoSep>>, <<>>),
    Req("GET", "/widget", <<RepLiteral, RepBadRegex, Theme>>, <<>>),
    Req("HEAD", "/widget", <<RepLiteral>>, <<>>),
    Req("HEAD", "/en/widget", <<RepBadRegex, RepLiteral>>, <<>>),
    Req("HEAD", "/widget", <<Theme, RepNoSep>>, <<>>),
    Req("OPTIONS", "/widget", <<RepNoSep>>, <<>>),
    Req("OPTIONS", "/en/widget", <<>>, <<>>),
    Req("DELETE", "/widget", <<RepBadRegex>>, <<>>),
    Req("POST", "/en/widget", <<RepLiteral>>, <<>>) }

Requests == PassRequests \cup WidgetRequests

Resp(status, pairs, body) ==
  [err |-> FALSE, status |-> status, hdr |-> WithHeaders(pairs), body |-> body,
   readErr |-> FALSE, avail |-> Len(body)]

Html == "Content-Type" :> <<"text/html">>
MaxAge(n) == "Cache-Control" :> <<"max-age=", n>>

\* what client.Do may return: a transport error, or a response
TransportError == [NoUp EXCEPT !.err = TRUE]
Cacheable == Resp(200, Html @@ MaxAge("1"), <<"H", "x">>)
CacheableIdentity ==
  Resp(200, ("Content-Encoding" :> <<" ", "Identity">>)
            @@ ("Cache-Control" :>
                  <<"no-cache", ",", " ", "Max-Age=", "0", ",", "max-age=", " ", "1">>)
            @@ ("Vary" :> <<"Accept-Encoding">>) @@ ("ETag" :> <<"e1">>), <<"H">>)
CacheableOverflow == Resp(200, Html @@ MaxAge("2"), <<"x">>)
NoMaxAge == Resp(200, Html, <<"H", "x">>)
Gzipped ==
  Resp(200, Html @@ MaxAge("1") @@ ("Content-Encoding" :> <<"gzip">>), <<"GZ", "H", "x">>)
NotFound == Resp(404, Html @@ MaxAge("1"), <<"x">>)
ReadFails == [Cacheable EXCEPT !.readErr = TRUE, !.avail = 1]
Brotli ==
  Resp(404, Html @@ ("Content-Encoding" :> <<"br">>) @@ ("Cache-Control" :> <<"no-store">>)
            @@ ("ETag" :> <<"e1">>) @@ ("Last-Modified" :> <<"d1">>)
            @@ ("Vary" :> <<"Accept-Encoding">>), <<"x", "-", "P", "L">>)
BadGzip == Resp(200, "Content-Encoding" :> <<"GZIP">>, <<"x">>)
WithFooter == Resp(200, Html, <<"H", "-", "P", "L">>)

\* the answers tried on the passthrough handler and on the widget handler
PassResponses ==
  { TransportError, Cacheable, CacheableIdentity, NoMaxAge, Gzipped, NotFound, ReadFails }

WidgetResponses ==
  { TransportError, Cacheable, Gzipped, NotFound, ReadFails, Brotli, BadGzip, WithFooter }

\* the requests and answers of the runs that keep the history of stored
\* responses
TTLRequests ==
  { Req("GET", "/a", <<>>, <<>>),
    Req("GET", "/a", <<>>, <<"gzip", " ">>) }

TTLResponses ==
  { Cacheable, CacheableIdentity, CacheableOverflow }

\* the keys and entries a caller of the cache passes
CacheKeys == {<<"k1">>, <<"k2">>, <<"k3">>}

CacheEntries ==
  { [Status |-> 200, Headers |-> WithHeaders(Html), Body |-> b, Expires |-> e] :
      b \in {<<"x">>, <<"y">>}, e \in {0, MaxTime} }

\* no call was made yet
NoCall ==
  [op |-> "none", key |-> <<>>, arg |-> NoEntry,
   ret |-> [ok |-> FALSE, entry |-> NoEntry, data |-> [k \in {} |-> NoEntry]],
   before |-> [k \in {} |-> NoEntry]]

\* the requests that reach client.Do in handleWidget
WidgetCalls(r) ==
  r.method # "OPTIONS" /\ MethodAllowed(r.method) /\ ~ParseReplacers(r.query).err

\* ------------------------------------------------------------------- state
VARIABLES
  now,         \* time.Now(), in ticks
  data,        \* MemoryCache.data
  maxEntries,  \* MemoryCache.maxEntries
  pending,     \* the passthrough requests waiting in client.Do (a bag)
  last,        \* the exchange whose handler has just returned, if any
  stored,      \* history: a response that called cache.Set, while it is watched
  call,        \* the latest call made to the cache by a caller other than the proxy
  mu,          \* MemoryCache.mu, the reader/writer mutex
  procs,       \* the goroutines calling the cache: where each is in Get or Set
  passed,      \* history: the (key, entry) pairs passed to Set so far
  storer       \* history: for each key of data, the request and the response stored

vars == <<now, data, maxEntries, pending, last, stored, call, mu, procs, passed, storer>>

EmptyMap == [k \in {} |-> NoEntry]

\* sync.RWMutex: the number of readers inside, and the goroutine that called
\* Lock (0 if none) with whether it got the lock
NoLock == [readers |-> 0, writer |-> 0, held |-> FALSE]

\* the goroutines that call the cache at the same time
Goroutines == 1..MaxInFlight

\* a goroutine outside Get and Set
Idle == [pc |-> "idle", key |-> <<>>, arg |-> NoEntry, got |-> [ok |-> FALSE, entry |-> NoEntry]]

\* history: no response is watched
NoStored ==
  [has |-> FALSE, key |-> <<>>, status |-> 0, body |-> <<>>, hdr |-> NoHeaders,
   at |-> 0, secs |-> 0, entry |-> NoEntry]

\* the watched response was stored within the last max-age seconds
InWindow(st, t) == st.has /\ t <= st.at + st.secs * Second

\* history of a request's arrival: whether the map held an entry for its key
\* (had), whether that entry had not expired (fresh), whether the map after
\* the handler's Get, d2, still held it (kept), and the N of the watched
\* response if it was stored with max-age=N for the same key at most N seconds
\* before (owed, 0 if none)
NoFirst == [had |-> FALSE, fresh |-> FALSE, kept |-> FALSE, owed |-> 0]

FirstSeen(r, d, d2, st, t) ==
  LET k == CacheKey(r)
      had == k \in DOMAIN d
  IN [had |-> had, fresh |-> had /\ t <= d[k].Expires,
      kept |-> had /\ k \in DOMAIN d2 /\ d2[k] = d[k],
      owed |-> IF st.key = k /\ InWindow(st, t) THEN st.secs ELSE 0]

\* history of a request that returned without calling upstream: the entry the
\* map held for its key when it arrived, and the watched response
NoSeen == [entry |-> NoEntry, watched |-> NoStored]

Seen(r, d, st) ==
  LET k == CacheKey(r)
  IN [entry |-> IF k \in DOMAIN d THEN d[k] ELSE NoEntry,
      watched |-> IF st.key = k THEN st ELSE NoStored]

NoReq == Req("", "", <<>>, <<>>)

NoExchange ==
  [kind |-> "none", req |-> NoReq, up |-> NoUp, w |-> NewWriter, cacheState |-> "",
   target |-> NoTarget, upreqs |-> <<>>, gets |-> 0, sets |-> 0, logs |-> <<>>,
   first |-> NoFirst, seen |-> NoSeen]

Exchange(kind, r, up, w, cacheState, target, upreqs, gets, sets, first, seen) ==
  [kind |-> kind, req |-> r, up |-> up, w |-> w, cacheState |-> cacheState,
   target |-> target, upreqs |-> upreqs, gets |-> gets, sets |-> sets,
   logs |-> <<LogLine(kind, r, w, cacheState, target)>>, first |-> first,
   seen |-> seen]

Init ==
  /\ now = 0
  /\ data = EmptyMap
  /\ maxEntries \in 1..MaxCap
  /\ pending = EmptyBag
  /\ last = NoExchange
  /\ stored = NoStored
  /\ call = NoCall
  /\ mu = NoLock
  /\ procs = [g \in Goroutines |-> Idle]
  /\ passed = {}
  /\ storer = EmptyMap

\* time passes; a watched response is forgotten once its max-age seconds and
\* its entry's expiry are both over
Tick ==
  /\ last = NoExchange
  /\ now < MaxTime
  /\ now' = now + 1
  /\ stored' = IF InWindow(stored, now + 1) \/ now + 1 <= stored.entry.Expires
               THEN stored ELSE NoStored
  /\ UNCHANGED <<data, maxEntries, pending, last, call, mu, procs, passed, storer>>

\* a request routed to handlePassthrough runs up to client.Do, or to its end
\* when it returns before
Arrive(r) ==
  /\ last = NoExchange
  /\ Route(r) = "pass"
  /\ LET b == PassBegin(r, data, now)
         cached == r.method \in {"GET", "HEAD"}
         first == IF cached THEN FirstSeen(r, data, b.data, stored, now) ELSE NoFirst
         seen == IF cached THEN Seen(r, data, stored) ELSE NoSeen
     IN /\ IF b.done
           THEN /\ last' = Exchange("pass", r, NoUp, b.w, b.cacheState, b.target,
                                    b.upreqs, b.gets, 0, first, seen)
                /\ pending' = pending
           ELSE /\ BagCardinality(pending) < MaxInFlight
                /\ pending' = pending (+) SetToBag({[req |-> r, target |-> b.target,
                                                     upreqs |-> b.upreqs, gets |-> b.gets,
                                                     first |-> first]})
                /\ last' = last
        /\ data' = b.data
  /\ UNCHANGED <<now, maxEntries, stored, call, mu, procs, passed, storer>>

\* client.Do returns up to a waiting passthrough request, which runs to its
\* end; watch tells whether the history of stored responses is kept
Respond(p, up, watch) ==
  /\ last = NoExchange
  /\ BagIn(p, pending)
  /\ LET e == PassEnd(p.req, up, now)
         k == CacheKey(p.req)
     IN /\ IF e.store
           THEN /\ data' \in MemoryCacheSet(data, maxEntries, k, e.entry)
                /\ stored' = IF ~watch \/ (stored.has /\ stored.key # k) THEN stored
                             ELSE [has |-> TRUE, key |-> k, status |-> WireStatus(e.w),
                                   body |-> e.w.body, hdr |-> EntryHeaders(up.hdr),
                                   at |-> now, secs |-> ParseMaxAge(up.hdr).secs,
                                   entry |-> e.entry]
           ELSE UNCHANGED <<data, stored>>
        /\ storer' = IF e.store
                     THEN [x \in DOMAIN data' |->
                             IF x = k THEN [req |-> p.req, up |-> up] ELSE storer[x]]
                     ELSE storer
        /\ last' = Exchange("pass", p.req, up, e.w, e.cacheState, p.target, p.upreqs,
                            p.gets, IF e.store THEN 1 ELSE 0, p.first, NoSeen)
  /\ pending' = pending (-) SetToBag({p})
  /\ UNCHANGED <<now, maxEntries, call, mu, procs, passed>>

\* a request routed to handleWidget runs to its end, client.Do returning up
\* if the handler calls it
Widget(r, up) ==
  /\ last = NoExchange
  /\ Route(r) = "widget"
  /\ IF WidgetCalls(r) THEN up \in WidgetResponses ELSE up = NoUp
  /\ LET x == WidgetHandle(r, up)
     IN last' = Exchange("widget", r, up, x.w, "", x.target, x.upreqs, 0, 0, NoFirst,
                         NoSeen)
  /\ UNCHANGED <<now, data, maxEntries, pending, stored, call, mu, procs, passed, storer>>

\* the handler has returned and its log line is out: the exchange is over
Return ==
  /\ last # NoExchange
  /\ last' = NoExchange
  /\ UNCHANGED <<now, data, maxEntries, pending, stored, call, mu, procs, passed, storer>>

\* the server: both handlers behind the router, sharing the cache
Next ==
  \/ Tick
  \/ \E r \in Requests : Arrive(r)
  \/ \E p \in BagToSet(pending), up \in PassResponses : Respond(p, up, FALSE)
  \/ \E r \in Requests, up \in WidgetResponses \cup {NoUp} : Widget(r, up)
  \/ Return

Spec == Init /\ [][Next]_vars

\* the passthrough handler with the history of stored responses kept
NextTTL ==
  \/ Tick
  \/ \E r \in TTLRequests : Arrive(r)
  \/ \E p \in BagToSet(pending), up \in TTLResponses : Respond(p, up, TRUE)
  \/ Return

SpecTTL == Init /\ [][NextTTL]_vars

\* ------------------------------------------------------- the cache by itself
\* NewMemoryCache(maxEntries), for any bound a caller may pass
InitCache ==
  /\ now = 0
  /\ data = EmptyMap
  /\ maxEntries \in 0..MaxCacheCap
  /\ pending = EmptyBag
  /\ last = NoExchange
  /\ stored = NoStored
  /\ call = NoCall
  /\ mu = NoLock
  /\ procs = [g \in Goroutines |-> Idle]
  /\ passed = {}
  /\ storer = EmptyMap

\* the clock of the cache's caller
CacheTick ==
  /\ now < MaxTime
  /\ now' = now + 1
  /\ UNCHANGED <<data, maxEntries, pending, last, stored, call, mu, procs, passed, storer>>

\* c.Get(k)
CacheGet(k) ==
  /\ call' = [op |-> "Get", key |-> k, arg |-> NoEntry,
              ret |-> MemoryCacheGet(data, k, now), before |-> data]
  /\ data' = MemoryCacheGet(data, k, now).data
  /\ UNCHANGED <<now, maxEntries, pending, last, stored, mu, procs, passed, storer>>

\* c.Set(k, e)
CacheSet(k, e) ==
  /\ data' \in MemoryCacheSet(data, maxEntries, k, e)
  /\ call' = [op |-> "Set", key |-> k, arg |-> e, ret |-> [ok |-> FALSE, entry |-> NoEntry, data |-> data'],
              before |-> data]
  /\ UNCHANGED <<now, maxEntries, pending, last, stored, mu, procs, passed, storer>>

NextCache ==
  \/ CacheTick
  \/ \E k \in CacheKeys : CacheGet(k)
  \/ \E k \in CacheKeys, e \in CacheEntries : CacheSet(k, e)

SpecCache == InitCache /\ [][NextCache]_vars

\* ------------------------------------------- the widget handler by itself
\* the pieces upstream widget bodies are made of
Chunks ==
  { <<"H">>, <<"x">>, <<"en-dash">>, <<"P", "L">>, FooterHyphen, FooterEscaped }

RECURSIVE Flatten(_)
Flatten(ss) == IF ss = <<>> THEN <<>> ELSE Head(ss) \o Flatten(Tail(ss))

\* the upstream bodies of at most MaxChunks pieces
Bodies == {Flatten(ss) : ss \in UNION {[1..n -> Chunks] : n \in 0..MaxChunks}}

\* more rep values: i to x, two x to i, an empty left side, H to the hyphen
\* form of the attribution, x to nothing
RepIX == <<"rep", <<"i", "=>", "x">>>>
RepXX == <<"rep", <<"x", "x", "=>", "i">>>>
RepEmpty == <<"rep", <<"=>", "i">>>>
RepFooter == <<"rep", <<"H", "=>", "-", "P", "L">>>>
RepDrop == <<"rep", <<"x", "=>">>>>

\* the queries of well-formed rules tried on the widget handler
RuleQueries ==
  { <<>>, <<RepLiteral>>, <<RepLiteral, RepIX>>, <<RepIX, Theme, RepLiteral>>,
    <<RepRegex>>, <<RepXX, RepLiteral>>, <<RepEmpty>>, <<RepFooter>>, <<RepDrop>>,
    <<RepDrop, RepFooter, RepRegex>> }

\* handleWidget on a request whose upstream answer is 200 with body b
Rewrite(m, q, b) ==
  /\ last = NoExchange
  /\ LET r == Req(m, "/widget", q, <<>>)
         up == Resp(200, Html, b)
         x == WidgetHandle(r, up)
     IN last' = Exchange("widget", r, up, x.w, "", x.target, x.upreqs, 0, 0, NoFirst,
                         NoSeen)
  /\ UNCHANGED <<now, data, maxEntries, pending, stored, call, mu, procs, passed, storer>>

NextWidget ==
  \/ \E m \in {"GET", "HEAD"}, q \in RuleQueries, b \in Bodies : Rewrite(m, q, b)
  \/ Return

SpecWidget == Init /\ [][NextWidget]_vars

\* --------------------------------------- the cache under concurrent callers
\* the keys and entries the concurrent callers use: EntryA and EntryB differ in
\* every field, and EntryB has expired
LockKeys == {<<"k1">>, <<"k2">>}
EntryA == [Status |-> 200, Headers |-> WithHeaders(Html), Body |-> <<"x">>, Expires |-> MaxTime]
EntryB ==
  [Status |-> 404, Headers |-> WithHeaders("ETag" :> <<"e1">>), Body |-> <<"y">>,
   Expires |-> -1]
EntryC == [EntryB EXCEPT !.Expires = MaxTime]
LockEntries == {EntryA, EntryB, EntryC}

\* RLock goes through unless a writer holds or waits for the mutex
RLockAlways(m) == TRUE

CanRLock(m) == m.writer = 0

\* Lock of a writer that has announced itself goes through once the readers left
CanLock(m) == m.readers = 0

\* the goroutine is inside the critical section of Get, of Set
InGet(p) == p.pc \in {"Get:read", "Get:RUnlock"}
InSet(p) == p.pc \in {"Set:evict", "Set:write1", "Set:write2", "Set:Unlock"}

\* Get: c.mu.RLock()
GetRLock(g, k) ==
  /\ procs[g].pc = "idle"
  /\ CanRLock(mu)
  /\ mu' = [mu EXCEPT !.readers = @ + 1]
  /\ procs' = [procs EXCEPT ![g] = [Idle EXCEPT !.pc = "Get:read", !.key = k]]
  /\ UNCHANGED <<now, data, maxEntries, pending, last, stored, call, passed, storer>>

\* Get: entry, ok := c.data[key] and the test of the expiry
GetRead(g) ==
  /\ procs[g].pc = "Get:read"
  /\ LET r == MemoryCacheGet(data, procs[g].key, now)
     IN procs' = [procs EXCEPT ![g].pc = "Get:RUnlock",
                               ![g].got = [ok |-> r.ok, entry |-> r.entry]]
  /\ UNCHANGED <<now, data, maxEntries, pending, last, stored, call, mu, passed, storer>>

\* Get: the deferred c.mu.RUnlock(), and the return
GetRUnlock(g) ==
  /\ procs[g].pc = "Get:RUnlock"
  /\ mu' = [mu EXCEPT !.readers = @ - 1]
  /\ procs' = [procs EXCEPT ![g] = Idle]
  /\ UNCHANGED <<now, data, maxEntries, pending, last, stored, call, passed, storer>>

\* Set: c.mu.Lock() shuts out the other writers and the readers to come
SetLock(g, k, e) ==
  /\ procs[g].pc = "idle"
  /\ mu.writer = 0
  /\ mu' = [mu EXCEPT !.writer = g]
  /\ procs' = [procs EXCEPT ![g] = [Idle EXCEPT !.pc = "Set:wait", !.key = k, !.arg = e]]
  /\ passed' = passed \cup {<<k, e>>}
  /\ UNCHANGED <<now, data, maxEntries, pending, last, stored, call, storer>>

\* Set: c.mu.Lock() returns
SetAcquire(g) ==
  /\ procs[g].pc = "Set:wait"
  /\ CanLock(mu)
  /\ mu' = [mu EXCEPT !.held = TRUE]
  /\ procs' = [procs EXCEPT ![g].pc = "Set:evict"]
  /\ UNCHANGED <<now, data, maxEntries, pending, last, stored, call, passed, storer>>

\* Set: the eviction of one entry when the map is at capacity
SetEvict(g) ==
  /\ procs[g].pc = "Set:evict"
  /\ IF Cardinality(DOMAIN data) >= maxEntries /\ DOMAIN data # {}
     THEN \E victim \in DOMAIN data : data' = MapDelete(data, victim)
     ELSE data' = data
  /\ procs' = [procs EXCEPT ![g].pc = "Set:write1"]
  /\ UNCHANGED <<now, maxEntries, pending, last, stored, call, mu, passed, storer>>

\* Set: c.data[key] = entry, the first fields of the entry copied
SetWrite1(g) ==
  /\ procs[g].pc = "Set:write1"
  /\ LET k == procs[g].key
         old == IF k \in DOMAIN data THEN data[k] ELSE NoEntry
     IN data' = MapPut(data, k, [old EXCEPT !.Status = procs[g].arg.Status,
                                            !.Headers = procs[g].arg.Headers])
  /\ procs' = [procs EXCEPT ![g].pc = "Set:write2"]
  /\ UNCHANGED <<now, maxEntries, pending, last, stored, call, mu, passed, storer>>

\* Set: c.data[key] = entry, the other fields copied
SetWrite2(g) ==
  /\ procs[g].pc = "Set:write2"
  /\ data' = MapPut(data, procs[g].key, procs[g].arg)
  /\ procs' = [procs EXCEPT ![g].pc = "Set:Unlock"]
  /\ UNCHANGED <<now, maxEntries, pending, last, stored, call, mu, passed, storer>>

\* Set: the deferred c.mu.Unlock(), and the return
SetUnlock(g) ==
  /\ procs[g].pc = "Set:Unlock"
  /\ mu' = NoLock
  /\ procs' = [procs EXCEPT ![g] = Idle]
  /\ UNCHANGED <<now, data, maxEntries, pending, last, stored, call, passed, storer>>

NextLock ==
  \/ \E g \in Goroutines, k \in LockKeys : GetRLock(g, k)
  \/ \E g \in Goroutines : GetRead(g) \/ GetRUnlock(g)
  \/ \E g \in Goroutines, k \in LockKeys, e \in LockEntries : SetLock(g, k, e)
  \/ \E g \in Goroutines : SetAcquire(g) \/ SetEvict(g)
  \/ \E g \in Goroutines : SetWrite1(g) \/ SetWrite2(g) \/ SetUnlock(g)

SpecLock == Init /\ [][NextLock]_vars

\* ---------------------------------------------------------------- SpecKey
\* the passthrough handler on requests that agree or differ on the fields of
\* the cache key: a request with a header the handler never reads
KeyReq(m, p, q, ae, cookie) ==
  [method |-> m, path |-> p, query |-> q, ae |-> ae, cookie |-> cookie]

KeyRequests ==
  { KeyReq("GET", "/a", <<>>, <<"gzip">>, "c1"),
    KeyReq("GET", "/a", <<>>, <<" ", "gzip", " ">>, "c2"),
    KeyReq("HEAD", "/a", <<>>, <<"gzip">>, "c1"),
    KeyReq("GET", "/a", <<Theme>>, <<"gzip">>, "c1"),
    KeyReq("GET", "/a", <<>>, <<>>, "c1") }

KeyResponses == { Cacheable, NoMaxAge }

NextKey ==
  \/ Tick
  \/ \E r \in KeyRequests : Arrive(r)
  \/ \E p \in BagToSet(pending), up \in KeyResponses : Respond(p, up, FALSE)
  \/ Return

SpecKey == Init /\ [][NextKey]_vars

\* --------------------------------------------------------------- SpecLive
\* both handlers under fair scheduling: a handler that can return does
\* (Return), and client.Do returns to every request that waits in it, with a
\* response or an error (Respond; main.go gives the client a 25 s timeout)
LiveRequests ==
  { Req("GET", "/a", <<>>, <<>>),
    Req("HEAD", "/a", <<>>, <<>>),
    Req("HEAD", "/%zz", <<>>, <<>>),
    Req("DELETE", "/b", <<>>, <<"gzip">>),
    Req("GET", "/widget", <<RepLiteral, Theme>>, <<"gzip">>),
    Req("HEAD", "/en/widget", <<RepBadRegex, RepLiteral>>, <<>>),
    Req("OPTIONS", "/widget", <<RepNoSep>>, <<>>) }

LiveResponses == { TransportError, Cacheable, NoMaxAge, NotFound, ReadFails }

\* client.Do returns to a waiting request r
Answer(r) ==
  \E p \in BagToSet(pending), up \in LiveResponses : p.req = r /\ Respond(p, up, FALSE)

NextLive ==
  \/ Tick
  \/ \E r \in LiveRequests : Arrive(r)
  \/ \E r \in LiveRequests : Answer(r)
  \/ \E r \in LiveRequests, up \in LiveResponses \cup {NoUp} : Widget(r, up)
  \/ Return

SpecLive ==
  /\ Init
  /\ [][NextLive]_vars
  /\ WF_vars(Return)
  /\ \A r \in LiveRequests : SF_vars(Answer(r))

\* ------------------------------------------------------------------ claims
\* the allow-listed headers sent are those of hdr
AllowListed(sent, hdr) ==
  \A i \in 1..Len(CacheHeaders) : sent[CacheHeaders[i]] = hdr[CacheHeaders[i]]

\* a passthrough GET has just returned
PassGetDone == last.kind = "pass" /\ last.req.method = "GET"

\* N seconds are a representable time.Duration
Representable(n) == n * Second < 2 ^ (DurBits - 1)

\* C1 as stated: a cacheable response (200, uncompressed, max-age=N, N > 0)
\* was served for a key; every later GET for that key that arrives within N
\* seconds of it, whatever ran in between, makes no upstream call and gets the
\* same body, status and allow-listed headers.  (Stated for the N whose
\* duration is representable.)
C1_AlwaysHitInWindow ==
  /\ \A p \in BagToSet(pending) :
       p.req.method = "GET" => ~(p.first.owed > 0 /\ Representable(p.first.owed))
  /\ (PassGetDone /\ last.first.owed > 0 /\ Representable(last.first.owed))
       => /\ last.upreqs = <<>>
          /\ last.w.body = last.seen.watched.body
          /\ WireStatus(last.w) = last.seen.watched.status
          /\ AllowListed(last.w.sent, last.seen.watched.hdr)

\* C1 amended: a GET that arrives while the entry stored for its key is still
\* in the cache (no Set evicted or replaced it) and not after the entry's
\* expiry makes no upstream call and no Set, and is answered with the entry's
\* status, body and allow-listed headers, which are those of the response that
\* stored the entry.
C1_HitWhileStored ==
  /\ \A p \in BagToSet(pending) :
       p.req.method = "GET" => ~(p.first.had /\ p.first.fresh)
  /\ (PassGetDone /\ last.first.had /\ last.first.fresh)
       => /\ last.upreqs = <<>>
          /\ last.sets = 0
          /\ last.w.body = last.seen.entry.Body
          /\ WireStatus(last.w) = last.seen.entry.Status
          /\ AllowListed(last.w.sent, last.seen.entry.Headers)
          /\ (last.seen.watched.has /\ last.seen.watched.entry = last.seen.entry)
               => /\ last.w.body = last.seen.watched.body
                  /\ WireStatus(last.w) = last.seen.watched.status
                  /\ AllowListed(last.w.sent, last.seen.watched.hdr)
  /\ last.sets = 1
       => /\ CacheKey(last.req) \in DOMAIN data
          /\ data[CacheKey(last.req)].Body = last.w.body
          /\ data[CacheKey(last.req)].Status = WireStatus(last.w)
          /\ data[CacheKey(last.req)].Headers = EntryHeaders(last.up.hdr)

\* C1: a GET was answered from the cache at a later time than the response
\* that stored the entry, with that response's body
C1_Witness ==
  /\ PassGetDone
  /\ last.cacheState = "HIT"
  /\ last.first.owed > 0
  /\ last.seen.watched.at < now
  /\ last.seen.watched.entry = last.seen.entry
  /\ last.w.body = last.seen.watched.body
  /\ last.w.body # <<>>

\* C2: Get treats an entry whose expiry has passed as absent and leaves it in
\* the map; a passthrough GET that arrives after the expiry of the entry
\* stored for its key is not answered from the cache and calls upstream once.
C2_ExpiredIsAbsent ==
  /\ \A p \in BagToSet(pending) : p.first.had => p.first.kept
  /\ last.first.had => last.first.kept
  /\ (PassGetDone /\ last.first.had /\ ~last.first.fresh)
       => /\ last.cacheState # "HIT"
          /\ last.gets = 1
          /\ Len(last.upreqs) = 1

\* C2: a GET waits for upstream although the map holds an entry for its key,
\* stored with a positive time to live and now expired
C2_Witness ==
  \E p \in BagToSet(pending) :
    /\ p.req.method = "GET"
    /\ p.first.had /\ ~p.first.fresh /\ p.first.kept
    /\ Len(p.upreqs) = 1
    /\ CacheKey(p.req) \in DOMAIN data
    /\ data[CacheKey(p.req)].Expires >= Second
    /\ now > data[CacheKey(p.req)].Expires

\* C3: a request that called cache.Set is a GET whose upstream response had
\* status 200 and no Content-Encoding other than identity; the map holds
\* nothing else.
C3_SetOnlyForPlainGet200 ==
  /\ last.sets > 0
       => /\ last.kind = "pass"
          /\ last.req.method = "GET"
          /\ last.up.status = 200
          /\ ToLower(TrimSpace(last.up.hdr["Content-Encoding"])) \in {<<>>, <<"identity">>}
  /\ \A k \in DOMAIN data : k[1] = "GET" /\ data[k].Status = 200

\* C3: a HEAD request was answered with a cacheable response and set nothing
C3_Witness ==
  /\ last.kind = "pass"
  /\ last.req.method = "HEAD"
  /\ last.up = Cacheable
  /\ last.sets = 0
  /\ \E k \in DOMAIN data : TRUE

\* C4 as stated: the number of stored entries never exceeds maxEntries, for
\* any bound the cache is built with.
C4_SizeWithinBound == Cardinality(DOMAIN data) <= maxEntries

\* C5 as stated: a passthrough GET answered from upstream (MISS:cached, MISS or
\* BYPASS) whose body was read whole is served exactly the upstream body,
\* written once.
C5_BodyWrittenOnce ==
  (PassGetDone /\ last.upreqs # <<>> /\ ~last.up.err /\ ~last.up.readErr)
    => /\ last.cacheState \in {"MISS:cached", "MISS", "BYPASS"}
       /\ last.w.body = last.up.body
       /\ last.w.writes <= 1

\* the CORS headers are among the headers sent
HasCORS(sent) ==
  /\ sent["Access-Control-Allow-Origin"] = <<"*">>
  /\ sent["Vary"] = <<"Origin">>
  /\ sent["Access-Control-Allow-Methods"] # <<>>
  /\ sent["Access-Control-Allow-Headers"] # <<>>

\* C6 as stated: every response of either handler carries the CORS headers.
C6_CORSOnEveryResponse == last.kind # "none" => HasCORS(last.w.sent)

\* C7 as stated: a HEAD request to either handler gets no body bytes written
\* by the handler, in any outcome.
C7_HeadWritesNoBody ==
  (last.kind # "none" /\ last.req.method = "HEAD")
    => last.w.body = <<>> /\ last.w.writes = 0

\* C8: an OPTIONS request on any path, whatever its query, is answered 204
\* with no body and the CORS headers, with no upstream call and no cache Get
\* or Set.
C8_Options ==
  (last.kind # "none" /\ last.req.method = "OPTIONS")
    => /\ last.w.codes = <<204>>
       /\ last.w.body = <<>> /\ last.w.writes = 0
       /\ HasCORS(last.w.sent)
       /\ last.upreqs = <<>>
       /\ last.gets = 0 /\ last.sets = 0

\* C8: an OPTIONS request with a malformed rep was answered by the widget
\* handler while the cache held an entry
C8_Witness ==
  /\ last.kind = "widget"
  /\ last.req.method = "OPTIONS"
  /\ last.req.query = <<RepNoSep>>
  /\ last.w.codes = <<204>>
  /\ DOMAIN data # {}

\* a rep value without the => separator
NoSeparator(raw) == \A i \in 1..Len(raw) : raw[i] # "=>"

\* a rep value whose left side is re: and a pattern that does not compile
BadPattern(raw) ==
  /\ ~NoSeparator(raw)
  /\ raw[1] = "re:"
  /\ ~RegexpCompiles(SubSeq(raw, 2, IndexFrom(raw, "=>", 1) - 1))

\* some rep parameter of the query is malformed
MalformedRep(q) ==
  \E i \in 1..Len(q) : q[i][1] = "rep" /\ (NoSeparator(q[i][2]) \/ BadPattern(q[i][2]))

\* C9: a widget GET or HEAD with a malformed rep parameter, wherever it stands
\* among the rep parameters, is answered 400 with no upstream call.
C9_MalformedRep ==
  (last.kind = "widget" /\ last.req.method \in {"GET", "HEAD"} /\ MalformedRep(last.req.query))
    => /\ last.w.codes = <<400>>
       /\ last.upreqs = <<>>
       /\ last.up = NoUp

\* C9: a widget GET whose bad regex follows a well-formed rule was refused
C9_Witness ==
  /\ last.kind = "widget"
  /\ last.req.query = <<RepLiteral, RepBadRegex, Theme>>
  /\ last.w.codes = <<400>>
  /\ last.upreqs = <<>>

\* C10: a request with a method other than GET, HEAD or OPTIONS is answered
\* 405 on any path, with no upstream call and no cache Get or Set, also when
\* a widget query carries a malformed rep.
C10_MethodNotAllowed ==
  (last.kind # "none" /\ last.req.method \notin {"GET", "HEAD", "OPTIONS"})
    => /\ last.w.codes = <<405>>
       /\ last.upreqs = <<>>
       /\ last.up = NoUp
       /\ last.gets = 0 /\ last.sets = 0

\* C10: a widget DELETE with a malformed rep was answered 405
C10_Witness ==
  /\ last.kind = "widget"
  /\ last.req.method = "DELETE"
  /\ MalformedRep(last.req.query)
  /\ last.w.codes = <<405>>

\* one rule applied to a body
ApplyRule(r, b) ==
  IF r.useRegex THEN RegexReplaceAll(b, r.from, r.to) ELSE ReplaceAll(b, r.from, r.to)

\* rn(...r2(r1(b))) for the first n rules of reps
RECURSIVE RuleChain(_, _, _)
RuleChain(reps, n, b) ==
  IF n = 0 THEN b ELSE ApplyRule(reps[n], RuleChain(reps, n - 1, b))

\* old occurs nowhere in s
NoOccurrence(s, old) == \A i \in 1..Len(s) : ~MatchAt(s, old, i)

\* the number of occurrences of old in s from position i on, counted from the
\* left without overlap
RECURSIVE Occurrences(_, _, _)
Occurrences(s, old, i) ==
  IF i > Len(s) THEN 0
  ELSE IF MatchAt(s, old, i) THEN 1 + Occurrences(s, old, i + Len(old))
  ELSE Occurrences(s, old, i + 1)

\* the rules of the request that has just returned, and its upstream body
LastRules == ParseReplacers(last.req.query).reps

\* a widget request has just returned whose upstream body was read whole
WidgetReadDone ==
  /\ last.kind = "widget"
  /\ last.upreqs # <<>>
  /\ ~last.up.err /\ ~last.up.readErr
  /\ ToLower(TrimSpace(last.up.hdr["Content-Encoding"])) \in {<<>>, <<"identity">>}

\* C11: applyReplacements applies the rules in the order given, each to the
\* output of the one before: the result is rn(...r2(r1(body))) and the widget
\* GET writes the footer removal of it; with no rule the body is unchanged; a
\* single literal rule with a non-empty left side that shares no token with
\* its right side leaves no occurrence of the left side and changes the length
\* by one replacement per non-overlapping occurrence.
C11_RulesInOrder ==
  WidgetReadDone =>
    LET reps == LastRules
        b == last.up.body
        out == ApplyReplacements(b, reps)
    IN /\ out = RuleChain(reps, Len(reps), b)
       /\ reps = <<>> => out = b
       /\ last.req.method = "GET" => last.w.body = WidgetFooterSwap(RuleChain(reps, Len(reps), b))
       /\ (/\ Len(reps) = 1
           /\ ~reps[1].useRegex
           /\ reps[1].from # <<>>
           /\ \A i \in 1..Len(reps[1].from), j \in 1..Len(reps[1].to) :
                reps[1].from[i] # reps[1].to[j])
            => /\ NoOccurrence(out, reps[1].from)
               /\ Len(out) = Len(b) + Occurrences(b, reps[1].from, 1)
                                        * (Len(reps[1].to) - Len(reps[1].from))

\* C11: a GET with the rules H to i and i to x was answered for a body with H:
\* the second rule worked on the output of the first
C11_Witness ==
  /\ WidgetReadDone
  /\ last.req.method = "GET"
  /\ last.req.query = <<RepLiteral, RepIX>>
  /\ last.up.body = <<"H", "x", "H">>
  /\ last.w.body = <<"x", "x", "x">>

\* C12 as stated: the body written for a widget GET whose upstream body was
\* read whole holds none of the three encodings of the attribution string,
\* for every upstream body and every list of rep rules.
C12_NoFooterLeft ==
  (WidgetReadDone /\ last.req.method = "GET")
    => /\ NoOccurrence(last.w.body, FooterEscaped)
       /\ NoOccurrence(last.w.body, FooterEnDash)
       /\ NoOccurrence(last.w.body, FooterHyphen)

\* the number of times pair stands in the query q
PairCount(q, pair) == Cardinality({i \in 1..Len(q) : q[i] = pair})

\* the pairs of a query
Pairs(q) == {q[i] : i \in 1..Len(q)}

\* a widget GET or HEAD with well-formed rep parameters has just returned
WidgetValidDone ==
  /\ last.kind = "widget"
  /\ last.req.method \in {"GET", "HEAD"}
  /\ ~MalformedRep(last.req.query)

\* C13: a widget GET or HEAD with well-formed rep parameters makes one
\* upstream request, to the fixed upstream widget path whatever widget path
\* the client used, whose query holds each pair of the client's query that is
\* not a rep as many times as the client's query does, and no rep.
C13_WidgetTarget ==
  WidgetValidDone =>
    /\ Len(last.upreqs) = 1
    /\ last.upreqs[1].target.origin = "https://giscus.app"
    /\ last.upreqs[1].target.path = "/en/widget"
    /\ \A pair \in Pairs(last.req.query) \cup Pairs(last.upreqs[1].target.query) :
         PairCount(last.upreqs[1].target.query, pair)
           = IF pair[1] = "rep" THEN 0 ELSE PairCount(last.req.query, pair)

\* C13: /widget?rep=H=>i&theme=dark was fetched as /en/widget?theme=dark
C13_Witness ==
  /\ WidgetValidDone
  /\ last.req.path = "/widget"
  /\ last.req.query = <<RepLiteral, Theme>>
  /\ Len(last.upreqs) = 1
  /\ last.upreqs[1].target.path = "/en/widget"
  /\ last.upreqs[1].target.query = <<Theme>>

\* a request on one of the widget paths has just returned
WidgetPathDone == last.kind # "none" /\ last.req.path \in {"/widget", "/en/widget"}

\* C14: a request on a widget path is handled by the widget handler, which
\* makes no cache Get and no cache Set; a GET or HEAD with well-formed rep
\* parameters makes exactly one upstream call, whatever was served before and
\* whatever the cache holds; the step in which a widget request is served
\* leaves the cache contents as they were.
C14_WidgetBypassesCache ==
  /\ [](WidgetPathDone =>
          /\ last.kind = "widget"
          /\ last.gets = 0 /\ last.sets = 0
          /\ last.logs[1].cache = "-"
          /\ WidgetValidDone => Len(last.upreqs) = 1)
  /\ [][(last'.kind # "none" /\ last'.req.path \in {"/widget", "/en/widget"})
          => data' = data]_vars

\* C14: a widget GET was fetched from upstream while the cache held an
\* unexpired entry
C14_Witness ==
  /\ WidgetValidDone
  /\ last.req.method = "GET"
  /\ last.up = Cacheable
  /\ Len(last.upreqs) = 1
  /\ \E k \in DOMAIN data : data[k].Expires >= now

\* C15: while a goroutine is inside the critical section of Set no other
\* goroutine is inside that of Get or Set; a Get that found an entry returns
\* one that was passed whole to a Set for its key; and when Set unlocks, the
\* map holds the entry it was given under its key.
C15_LockDiscipline ==
  /\ \A g \in Goroutines :
       InSet(procs[g]) =>
         /\ mu.writer = g /\ mu.held /\ mu.readers = 0
         /\ \A h \in Goroutines \ {g} : ~InSet(procs[h]) /\ ~InGet(procs[h])
  /\ mu.readers = Cardinality({g \in Goroutines : InGet(procs[g])})
  /\ \A g \in Goroutines :
       (procs[g].pc = "Get:RUnlock" /\ procs[g].got.ok)
         => <<procs[g].key, procs[g].got.entry>> \in passed
  /\ \A g \in Goroutines :
       procs[g].pc = "Set:Unlock"
         => procs[g].key \in DOMAIN data /\ data[procs[g].key] = procs[g].arg

\* C15: two Gets are inside their critical sections at once, one of them with
\* an entry of a key that was also given another entry
C15_Witness ==
  \E g \in Goroutines, h \in Goroutines :
    /\ g # h
    /\ procs[g].pc = "Get:RUnlock"
    /\ procs[g].got.ok
    /\ procs[g].got.entry = EntryA
    /\ <<procs[g].key, EntryC>> \in passed
    /\ InGet(procs[h])
    /\ mu.readers = 2

\* C16: a request makes at most one upstream call; when client.Do fails the
\* request made exactly one call, is answered 502 with a body that holds the
\* error's text, calls no Set, and the step that answers it leaves the cache
\* contents as they were.
C16_NoRetry ==
  /\ [](/\ Len(last.upreqs) <= 1
        /\ \A p \in BagToSet(pending) : Len(p.upreqs) = 1
        /\ (last.kind # "none" /\ last.up.err)
             => /\ Len(last.upreqs) = 1
                /\ last.w.codes = <<502>>
                /\ \E i \in 1..Len(last.w.body) : last.w.body[i] = "err"
                /\ last.sets = 0)
  /\ [][(last'.kind # "none" /\ last'.up.err) => data' = data]_vars

\* C16: a passthrough GET whose upstream call failed was answered 502 while
\* the cache held an entry
C16_Witness ==
  /\ PassGetDone
  /\ last.up.err
  /\ last.w.codes = <<502>>
  /\ Len(last.upreqs) = 1
  /\ DOMAIN data # {}

\* a passthrough GET got a 200 response without encoding whose body was read
\* whole, after a cache miss
PlainGet200Done ==
  /\ PassGetDone
  /\ last.upreqs # <<>>
  /\ ~last.up.err /\ ~last.up.readErr
  /\ last.up.status = 200
  /\ ToLower(TrimSpace(last.up.hdr["Content-Encoding"])) \in {<<>>, <<"identity">>}

\* the N of the first max-age=N with N > 0 among the Cache-Control directives
\* of the model's responses, 0 if there is none
PositiveMaxAge(up) ==
  CASE up.hdr["Cache-Control"] = <<"max-age=", "1">> -> 1
    [] up.hdr["Cache-Control"] = <<"max-age=", "2">> -> 2
    [] up.hdr["Cache-Control"]
         = <<"no-cache", ",", " ", "Max-Age=", "0", ",", "max-age=", " ", "1">> -> 1
    [] OTHER -> 0

\* C17 as stated: such a GET calls cache.Set exactly when the response carries
\* max-age=N with N > 0, and then the entry under the request's key has status
\* 200, the allow-listed headers with non-empty values and no other, the full
\* body, and the expiry (time of store) + N seconds.
C17_StoreOnPositiveMaxAge ==
  PlainGet200Done =>
    LET n == PositiveMaxAge(last.up)
        k == <<"GET", " ", <<last.req.path, last.req.query>>, " ae=">> \o TrimSpace(last.req.ae)
    IN /\ (last.sets = 1) = (n > 0)
       /\ last.sets \in {0, 1}
       /\ n > 0 =>
            /\ k \in DOMAIN data
            /\ data[k].Status = 200
            /\ data[k].Body = last.up.body
            /\ \A h \in DOMAIN data[k].Headers :
                 data[k].Headers[h] = IF \E i \in 1..Len(CacheHeaders) : CacheHeaders[i] = h
                                      THEN last.up.hdr[h] ELSE <<>>
            /\ data[k].Expires = now + n * Second

\* upstream answered the passthrough request that has just returned
PassAnswered == last.kind = "pass" /\ last.upreqs # <<>> /\ ~last.up.err /\ last.up # NoUp

\* the answer is one the handler buffers: a GET, status 200, no encoding
BufferedCase ==
  /\ last.req.method = "GET"
  /\ last.up.status = 200
  /\ ToLower(TrimSpace(last.up.hdr["Content-Encoding"])) \in {<<>>, <<"identity">>}

\* C18: the cache-state field of a passthrough log line is HIT exactly when
\* the request found an unexpired entry under its key and was answered with no
\* upstream call, MISS:cached exactly when the request called cache.Set, MISS
\* exactly when upstream answered a GET with 200 and no encoding and nothing
\* was stored, and BYPASS whenever upstream answered and the response was
\* streamed (HEAD, another status, or an encoding).
C18_CacheStateLogged ==
  last.kind = "pass" =>
    LET c == last.logs[1].cache
    IN /\ Len(last.logs) = 1
       /\ c \in {"HIT", "MISS:cached", "MISS", "BYPASS"}
       /\ (c = "HIT") = (last.first.had /\ last.first.fresh /\ last.upreqs = <<>>)
       /\ c = "HIT" => /\ WireStatus(last.w) = last.seen.entry.Status
                       /\ last.w.body = IF last.req.method = "GET"
                                        THEN last.seen.entry.Body ELSE <<>>
       /\ (c = "MISS:cached") = (last.sets = 1)
       /\ (c = "MISS") = (PassAnswered /\ BufferedCase /\ last.sets = 0)
       /\ (PassAnswered /\ ~BufferedCase) => c = "BYPASS"

\* C18: a GET whose 200 response could not be read whole was logged MISS
C18_Witness ==
  /\ PassGetDone
  /\ last.up = ReadFails
  /\ last.logs[1].cache = "MISS"
  /\ last.sets = 0

\* upstream answered the widget request that has just returned with a
\* Content-Encoding other than empty, identity and gzip
UnsupportedEncodingDone ==
  /\ WidgetValidDone
  /\ last.upreqs # <<>>
  /\ ~last.up.err /\ ~last.up.readErr
  /\ ToLower(TrimSpace(last.up.hdr["Content-Encoding"]))
       \notin {<<>>, <<"identity">>, <<"gzip">>}

\* C19: a widget request whose upstream response has an unsupported
\* Content-Encoding is answered with the upstream status and the upstream
\* body as it came: no rep rule and no footer removal is applied to it.
C19_UnsupportedEncodingForwarded ==
  UnsupportedEncodingDone =>
    /\ last.w.codes = <<last.up.status>>
    /\ last.w.body = last.up.body
    /\ last.w.writes = 1

\* C19: a GET with a regex rule for x got a 404 brotli body with x and the
\* attribution string back untouched
C19_Witness ==
  /\ UnsupportedEncodingDone
  /\ last.req.method = "GET"
  /\ last.req.query = <<Theme, RepRegex, Term, Theme>>
  /\ last.up = Brotli
  /\ last.w.codes = <<404>>
  /\ last.w.body = <<"x", "-", "P", "L">>

\* upstream answered the request that has just returned, and the handler's
\* read of the upstream body failed
ReadFailedDone ==
  /\ last.kind # "none"
  /\ last.upreqs # <<>>
  /\ ~last.up.err /\ last.up.readErr
  /\ last.kind = "widget" \/ last.req.method = "GET"

\* C20 as stated: in either handler a failed read of the upstream body gives
\* the upstream status with a diagnostic comment as the body, nothing of the
\* upstream body, and no cache entry.
C20_ReadFailureDiagnostic ==
  ReadFailedDone =>
    /\ last.w.codes = <<last.up.status>>
    /\ \E i \in 1..Len(last.w.body) : last.w.body[i] = "<!-- read body failed: "
    /\ \A i \in 1..Len(last.w.body), j \in 1..Len(last.up.body) :
         last.w.body[i] # last.up.body[j]
    /\ last.sets = 0

\* upstream answered the widget request that has just returned
WidgetUpstreamDone ==
  /\ last.kind = "widget"
  /\ last.upreqs # <<>>
  /\ ~last.up.err

\* the headers writeCORS sets on a fresh writer
CORSOnly == WriteCORS(NewWriter).hdr

\* C21: a widget response that follows a successful upstream call carries of
\* the upstream headers only Content-Type, when upstream sent one: upstream
\* Cache-Control, Content-Encoding, ETag, Last-Modified and Vary are not
\* copied (Vary is the one writeCORS sets), and the status written is the
\* upstream status.
C21_OnlyContentTypeForwarded ==
  WidgetUpstreamDone =>
    /\ last.w.sent["Content-Type"] = last.up.hdr["Content-Type"]
    /\ \A h \in HeaderNames \ {"Content-Type"} : last.w.sent[h] = CORSOnly[h]
    /\ \A h \in {"Cache-Control", "Content-Encoding", "ETag", "Last-Modified"} :
         last.w.sent[h] = <<>>
    /\ last.w.sent["Vary"] = <<"Origin">>
    /\ last.w.codes = <<last.up.status>>

\* C21: upstream answered 404 with Cache-Control, Content-Encoding, ETag,
\* Last-Modified, Vary and Content-Type: the client got the 404 and the
\* Content-Type, none of the others
C21_Witness ==
  /\ WidgetUpstreamDone
  /\ last.up = Brotli
  /\ \A h \in {"Cache-Control", "Content-Encoding", "ETag", "Last-Modified", "Vary"} :
       last.up.hdr[h] # <<>>
  /\ last.w.sent["Content-Type"] = <<"text/html">>
  /\ last.w.sent["ETag"] = <<>>
  /\ last.w.sent["Vary"] = <<"Origin">>
  /\ last.w.codes = <<404>>

\* two requests agree on method, request URI and trimmed Accept-Encoding
SameKeyFields(r1, r2) ==
  /\ r1.method = r2.method
  /\ r1.path = r2.path /\ r1.query = r2.query
  /\ TrimSpace(r1.ae) = TrimSpace(r2.ae)

\* the passthrough request that has just returned was served from the cache
HitDone == last.kind = "pass" /\ last.cacheState = "HIT"

\* C22: a cache hit is served only to a request that agrees on method,
\* request URI and trimmed Accept-Encoding with the request whose response
\* was stored in the entry; requests that agree on the three have the same
\* key whatever else they carry, and requests that differ in one of them
\* have different keys and so no entry in common.
C22_KeyFields ==
  /\ HitDone =>
        /\ CacheKey(last.req) \in DOMAIN storer
        /\ SameKeyFields(last.req, storer[CacheKey(last.req)].req)
  /\ \A r1 \in KeyRequests, r2 \in KeyRequests :
        SameKeyFields(r1, r2) <=> CacheKey(r1) = CacheKey(r2)
  /\ \A k \in DOMAIN data : k \in DOMAIN storer /\ CacheKey(storer[k].req) = k

\* C22: a GET with Accept-Encoding "gzip" and one cookie was served the entry
\* stored by a GET of the same URI with Accept-Encoding " gzip " and another
\* cookie
C22_Witness ==
  /\ HitDone
  /\ last.req = KeyReq("GET", "/a", <<>>, <<"gzip">>, "c1")
  /\ storer[CacheKey(last.req)].req = KeyReq("GET", "/a", <<>>, <<" ", "gzip", " ">>, "c2")
  /\ last.w.body = Cacheable.body

\* request r waits in client.Do
Waiting(r) == \E p \in BagToSet(pending) : p.req = r

\* the handler of request r has just returned, after client.Do if called
Returned(r, called) ==
  last.kind # "none" /\ last.req = r /\ (called <=> last.upreqs # <<>>)

\* C23: if every upstream call returns, every request ends: a request that
\* waits in client.Do is answered and its handler returns, and a handler that
\* has written its response returns. Every handler that returns has emitted
\* one log line, whose status is the status sent to the client, and whose
\* cache state is "-" for a widget request.
C23_TerminatesWithOneLogLine ==
  /\ [](last.kind # "none" =>
         /\ Len(last.logs) = 1
         /\ last.logs[1].status = WireStatus(last.w)
         /\ last.logs[1].kind = last.kind
         /\ last.kind = "widget" => last.logs[1].cache = "-")
  /\ \A r \in LiveRequests : Waiting(r) ~> Returned(r, TRUE)
  /\ (last.kind # "none") ~> (last.kind = "none")

\* C23: a GET that waited in client.Do got a 404 and returned with one log
\* line of status 404
C23_Witness ==
  /\ Returned(Req("GET", "/a", <<>>, <<>>), TRUE)
  /\ last.up = NotFound
  /\ WireStatus(last.w) = 404
  /\ Len(last.logs) = 1
  /\ last.logs[1].status = 404

\* C24: when Set(k, e) returns the map holds exactly e under k, whatever it
\* held before (nothing of an overwritten entry is left); a Get(k) at a time
\* not after the expiry of the entry held under k returns exactly that entry;
\* and the map changes in no step other than a Set. So every Get(k) after
\* Set(k, e) and not after e's expiry returns e, until a Set removes or
\* replaces it.
C24_GetReturnsLastSet ==
  [][ /\ \A k \in CacheKeys, e \in CacheEntries :
           CacheSet(k, e) => k \in DOMAIN data' /\ data'[k] = e
      /\ \A k \in CacheKeys :
           (CacheGet(k) /\ k \in DOMAIN data /\ now <= data[k].Expires)
             => call'.ret.ok /\ call'.ret.entry = data[k]
      /\ data' # data => call'.op = "Set" /\ call'.before = data
    ]_vars

\* C24: a Set has overwritten a live entry of its key with one that differs
\* in body and expiry, and its key holds the new entry
C24_Witness ==
  /\ call.op = "Set"
  /\ call.key \in DOMAIN call.before
  /\ call.before[call.key].Body = <<"x">> /\ call.before[call.key].Expires = MaxTime
  /\ call.arg.Body = <<"y">> /\ call.arg.Expires = 0
  /\ data = call.ret.data
  /\ data[call.key] = call.arg

\* C24: a Get at the very time of the entry's expiry returned the entry
C24_GetAtExpiry ==
  /\ call.op = "Get"
  /\ now = 0
  /\ call.ret.ok
  /\ call.ret.entry.Expires = 0
  /\ call.ret.entry = data[call.key]

\* the passthrough request that has just returned called cache.Set
StoredDone == last.kind = "pass" /\ last.sets = 1

\* C25 as stated: an entry the passthrough handler stores expires strictly
\* after the time at which it is stored, for every max-age=N the handler
\* accepts.
C25_StoredExpiresLater ==
  StoredDone =>
    /\ CacheKey(last.req) \in DOMAIN data
    /\ data[CacheKey(last.req)].Expires > now

\* C26: every entry of the map has status 200, a key built from the GET
\* request that stored it, the allow-listed headers that the upstream response
\* carried and no other header, and as body the whole body of that response,
\* which was read without failure and had no Content-Encoding other than
\* identity.
C26_StoredEntries ==
  \A k \in DOMAIN data :
    /\ k \in DOMAIN storer
    /\ LET req == storer[k].req
           up == storer[k].up
       IN /\ data[k].Status = 200
          /\ req.method = "GET"
          /\ k = <<"GET", " ", <<req.path, req.query>>, " ae=">> \o TrimSpace(req.ae)
          /\ \A h \in HeaderNames :
               data[k].Headers[h] # <<>> =>
                 /\ \E i \in 1..Len(CacheHeaders) : CacheHeaders[i] = h
                 /\ data[k].Headers[h] = up.hdr[h]
          /\ ~up.err /\ ~up.readErr /\ up.status = 200
          /\ ToLower(TrimSpace(up.hdr["Content-Encoding"])) \in {<<>>, <<"identity">>}
          /\ data[k].Body = up.body

\* C26: the map holds the entry of a GET of /b?theme=dark whose response
\* carried Content-Encoding: Identity, Cache-Control, Vary and ETag
C26_Witness ==
  \E k \in DOMAIN data :
    /\ storer[k].req = Req("GET", "/b", <<Theme>>, <<>>)
    /\ storer[k].up = CacheableIdentity
    /\ data[k].Headers["ETag"] = <<"e1">>
    /\ data[k].Headers["Vary"] = <<"Accept-Encoding">>
    /\ data[k].Headers["Content-Type"] = <<>>
    /\ data[k].Body = <<"H">>

\* the passthrough HEAD request that has just returned
HeadDone == last.kind = "pass" /\ last.req.method = "HEAD"

\* the key of the GET request with the URI and Accept-Encoding of r
GetKeyOf(r) == <<"GET", " ", <<r.path, r.query>>, " ae=">> \o TrimSpace(r.ae)

\* C27 as stated: a passthrough HEAD is never answered from the cache, and
\* every passthrough HEAD makes exactly one upstream call.
C27_HeadOneUpstreamCall ==
  HeadDone =>
    /\ last.cacheState # "HIT"
    /\ Len(last.upreqs) = 1

\* C27, the part that holds: a passthrough HEAD is never answered from the
\* cache, and makes exactly one upstream call when its upstream request can
\* be built.
C27_HeadNeverHits ==
  HeadDone =>
    /\ last.cacheState # "HIT"
    /\ last.gets = 1
    /\ last.req.path \notin BadPaths => Len(last.upreqs) = 1

\* C27: a HEAD returned after one upstream call while the map held an
\* unexpired entry stored by a GET of the same URI and Accept-Encoding
C27_HeadBesideGetEntry ==
  /\ HeadDone
  /\ Len(last.upreqs) = 1
  /\ GetKeyOf(last.req) \in DOMAIN data
  /\ now <= data[GetKeyOf(last.req)].Expires
  /\ storer[GetKeyOf(last.req)].req.method = "GET"

\* the latest call of the cache was a Set of a key the map already held
SetOfPresentKey == call.op = "Set" /\ call.key \in DOMAIN call.before

\* C28 as stated: a Set(k, e) of a key that is already present leaves the
\* entry of every other key in place, also when the map is at its capacity.
C28_SetKeepsOtherKeys ==
  SetOfPresentKey =>
    \A k \in DOMAIN call.before \ {call.key} :
      k \in DOMAIN data /\ data[k] = call.before[k]

\* C28, below capacity: a Set of a present key in a map with fewer entries
\* than maxEntries leaves every other entry in place.
C28_BelowCapacity ==
  (SetOfPresentKey /\ Cardinality(DOMAIN call.before) < maxEntries) =>
    \A k \in DOMAIN call.before \ {call.key} :
      k \in DOMAIN data /\ data[k] = call.before[k]

\* C29: a Get leaves the map as it found it, whether the key is missing,
\* live or expired; and the test of the capacity in Set counts the entries of
\* the map whether expired or not: a Set of a new key adds an entry when the
\* map holds fewer than maxEntries entries and otherwise leaves it with as
\* many as before.
C29_GetLeavesMap ==
  /\ call.op = "Get" => data = call.before /\ call.ret.data = call.before
  /\ (call.op = "Set" /\ call.key \notin DOMAIN call.before) =>
       Cardinality(DOMAIN data) =
         IF Cardinality(DOMAIN call.before) >= maxEntries /\ DOMAIN call.before # {}
         THEN Cardinality(DOMAIN call.before)
         ELSE Cardinality(DOMAIN call.before) + 1

\* C29: a Get of a key whose entry has expired found nothing, in a full map
\* of two entries that still holds the expired entry
C29_Witness ==
  /\ call.op = "Get"
  /\ ~call.ret.ok
  /\ call.key \in DOMAIN data
  /\ now > data[call.key].Expires
  /\ data = call.before
  /\ Cardinality(DOMAIN data) = 2 /\ maxEntries = 2

\* C29: a Set of a new key found the map full with an expired entry in it and
\* evicted an entry that had not expired
C29_ExpiredCounts ==
  /\ call.op = "Set" /\ call.key \notin DOMAIN call.before
  /\ maxEntries = 2 /\ Cardinality(DOMAIN call.before) = 2
  /\ \E k \in DOMAIN call.before : now > call.before[k].Expires /\ k \in DOMAIN data
  /\ \E k \in DOMAIN call.before : now <= call.before[k].Expires /\ k \notin DOMAIN data

\* C30 as stated: on every path through either handler WriteHeader is called
\* exactly once, directly or by http.Error, and before any byte of the body
\* is written.
C30_StatusCommittedOnce ==
  last.kind # "none" =>
    /\ Len(last.w.codes) = 1
    /\ last.w.late = 0

\* C30, the paths that hold: every request but a passthrough GET logged MISS
\* has WriteHeader called once and before every Write.
C30_OnceOutsideMiss ==
  (last.kind # "none" /\ last.cacheState # "MISS") =>
    /\ Len(last.w.codes) = 1
    /\ last.w.late = 0

\* upstream answered the HEAD request that has just returned, and the handler
\* neither failed to decode nor failed to read what it reads of the body
HeadNormalDone ==
  /\ last.kind # "none"
  /\ last.req.method = "HEAD"
  /\ last.upreqs # <<>>
  /\ ~last.up.err
  /\ last.kind = "widget" =>
       /\ ~last.up.readErr
       /\ ToLower(TrimSpace(last.up.hdr["Content-Encoding"]))
            \in {<<>>, <<"identity">>, <<"gzip">>}
       /\ ToLower(TrimSpace(last.up.hdr["Content-Encoding"])) = <<"gzip">>
            => GzipOK(last.up.body)

\* C31: every upstream request of either handler, sent or waiting for its
\* answer, has method GET, whatever the client's method; and a client HEAD
\* answered on the normal path gets the upstream status and no byte of the
\* body of the upstream GET.
C31_UpstreamAlwaysGet ==
  /\ \A p \in BagToSet(pending) :
       \A i \in 1..Len(p.upreqs) : p.upreqs[i].method = "GET"
  /\ \A i \in 1..Len(last.upreqs) : last.upreqs[i].method = "GET"
  /\ HeadNormalDone =>
       /\ Len(last.upreqs) = 1
       /\ last.w.codes = <<last.up.status>>
       /\ last.w.body = <<>>
       /\ last.w.writes = 0

\* C31: a passthrough HEAD was sent upstream as a GET, upstream answered 200
\* with a body, and the client got the 200 and no body
C31_Witness ==
  /\ HeadNormalDone
  /\ last.kind = "pass"
  /\ last.upreqs[1].method = "GET"
  /\ last.up = Cacheable
  /\ last.up.body # <<>>
  /\ last.w.codes = <<200>>
  /\ last.w.body = <<>>

\* C31: the same for a widget HEAD with a rep rule
C31_WidgetHead ==
  /\ HeadNormalDone
  /\ last.kind = "widget"
  /\ last.req.query = <<RepLiteral>>
  /\ last.upreqs[1].method = "GET"
  /\ last.up = Gzipped
  /\ last.w.codes = <<200>>
  /\ last.w.body = <<>>

====
